---- MODULE Spec2Model ----
(***************************************************************************)
(* A model of SimpVCS (src/VCS.py): class Repository with its staging      *)
(* directory, commit directories, branch files and ignore file.            *)
(*                                                                         *)
(* Strings the code inspects character by character (paths, file names,    *)
(* ignore patterns, file bytes) are sequences of one-character strings.    *)
(* A directory is a function from file names to file contents.             *)
(***************************************************************************)
EXTENDS Naturals, Sequences, FiniteSets

VARIABLES
  staging,    \* .vcs/staging : file name -> content
  commits,    \* .vcs/commits : commit hash -> directory (file name -> content)
  branches,   \* .vcs/branches: branch name -> content of the branch file
  ignore,     \* .vcs/ignore  : the lines of the ignore file
  last,       \* the last call: operation, arguments, exception, return value,
              \* and whether it repeats the add of the call before it (for a
              \* branch call: whether it replaces a branch file)
  steps,      \* number of calls made so far
  procs,      \* concurrent callers: where each is in its call, and its locals
  clock,      \* the time of the file system clock when it was last read, in
              \* ticks
  outside     \* what lies outside .vcs: the entries of the working directory
              \* (working) and whether the clone ../copy exists (copy)

vars == <<staging, commits, branches, ignore, last, steps, procs, clock, outside>>

----------------------------------------------------------------------------
(* Bounds of the model *)

MaxOps == 5    \* calls per behaviour
MaxCalls == 2  \* calls per caller, when two callers share the repository

----------------------------------------------------------------------------
(* Strings *)

README == <<"R","E","A","D","M","E",".","m","d">>
DocsReadme == <<"d","o","c","s","/">> \o README
Notes == <<"n","o","t","e","s">>
MetadataJson == <<"m","e","t","a","d","a","t","a",".","j","s","o","n">>
VcsIgnore == <<".","v","c","s","/","i","g","n","o","r","e">>
Docs == <<"d","o","c","s">>
\* the directory entries a clone into the repository leaves behind
X == <<"x">>
DotVcs == <<".","v","c","s">>

Hello == <<"h","e","l","l","o">>
World == <<"w","o","r","l","d">>
OnlyCR == <<"\r">>
OnlyLF == <<"\n">>
BadByte == <<"0xFF">>      \* the single byte 0xFF: not valid UTF-8

\* the lines of a file, one after the other
RECURSIVE Joined(_)
Joined(lines) == IF lines = <<>> THEN <<>> ELSE Head(lines) \o Joined(Tail(lines))

\* the paths handed to add(): files of the working directory, and the
\* repository's own ignore file
Paths == {README, DocsReadme, Notes, MetadataJson, VcsIgnore}
\* the bytes the file at a path can hold when it is added; ignore_lines are
\* the lines of .vcs/ignore, which holds them one after the other
DataAt(p, ignore_lines) ==
  CASE p = README -> {Hello, World}
    [] p = DocsReadme -> {BadByte}
    [] p = Notes -> {OnlyCR, OnlyLF}
    [] p = MetadataJson -> {Hello}
    [] p = VcsIgnore -> {Joined(ignore_lines)}
\* the message handed to commit(): "init" while the commits directory is
\* empty, "update" after that
Messages(cms) == IF DOMAIN cms = {} THEN {"init"} ELSE {"update"}
BranchNames == {"main", "dev"}
\* the destinations handed to clone(): a new path outside the repository, and
\* new paths in its staging, commits and branches directories
Destinations == {"../copy", ".vcs/staging/x", ".vcs/commits/x", ".vcs/branches/x"}
\* the times the file system clock can show at a change of a directory, when
\* it showed t at the change before: the clock is coarse, a change made
\* within the same tick gets the same time
Tick(t) == {t, t + 1}

\* the ignore files a repository is opened with: the default one written by
\* __init__ (line 29), and one the user has extended
DefaultIgnore == << <<".","v","c","s","\n">> >>
UserIgnore == << <<".","v","c","s","\n">>,
                 <<"n","o","t","e","s","\n">>,
                 <<"*",".","j","s","o","n","\n">> >>
IgnoreFiles == {DefaultIgnore, UserIgnore}

\* code points of the characters of the file names, for str comparison
Ord == [c \in {".","0","1","2","3","4","5","6","7","8","9",
                 "A","D","E","M","R","a","b","c","d","e","f","j","m","n","o","s","t",
                 "v","x"} |->
          CASE c = "." -> 46  [] c = "A" -> 65  [] c = "D" -> 68
            [] c = "0" -> 48  [] c = "1" -> 49  [] c = "2" -> 50
            [] c = "3" -> 51  [] c = "4" -> 52  [] c = "5" -> 53
            [] c = "6" -> 54  [] c = "7" -> 55  [] c = "8" -> 56
            [] c = "9" -> 57  [] c = "b" -> 98  [] c = "c" -> 99
            [] c = "f" -> 102
            [] c = "E" -> 69  [] c = "M" -> 77  [] c = "R" -> 82
            [] c = "a" -> 97  [] c = "d" -> 100 [] c = "e" -> 101
            [] c = "j" -> 106 [] c = "m" -> 109 [] c = "n" -> 110
            [] c = "o" -> 111 [] c = "s" -> 115 [] c = "t" -> 116
            [] c = "v" -> 118 [] c = "x" -> 120]

RECURSIVE StrLess(_, _)
\* Python's a < b on str: lexicographic by code point
StrLess(a, b) ==
  IF b = <<>> THEN FALSE
  ELSE IF a = <<>> THEN TRUE
  ELSE IF Head(a) = Head(b) THEN StrLess(Tail(a), Tail(b))
  ELSE Ord[Head(a)] < Ord[Head(b)]

RECURSIVE sorted(_)
\* sorted(list of str), the list given as the set of its (distinct) elements
sorted(S) ==
  IF S = {} THEN <<>>
  ELSE LET m == CHOOSE x \in S : \A y \in S : x = y \/ StrLess(x, y)
       IN  <<m>> \o sorted(S \ {m})

Whitespace == {" ", "\t", "\n", "\r"}

RECURSIVE LStrip(_)
LStrip(s) == IF s # <<>> /\ Head(s) \in Whitespace THEN LStrip(Tail(s)) ELSE s

RECURSIVE RStrip(_)
RStrip(s) ==
  IF s # <<>> /\ s[Len(s)] \in Whitespace THEN RStrip(SubSeq(s, 1, Len(s) - 1)) ELSE s

\* str.strip()
strip(s) == RStrip(LStrip(s))

\* pattern in s
Contains(pattern, s) ==
  \E i \in 1..(Len(s) + 1) :
     /\ i + Len(pattern) - 1 <= Len(s)
     /\ SubSeq(s, i, i + Len(pattern) - 1) = pattern

\* s.endswith(suffix)
endswith(s, suffix) ==
  /\ Len(suffix) <= Len(s)
  /\ SubSeq(s, Len(s) - Len(suffix) + 1, Len(s)) = suffix

\* pattern.replace('*', '')
StripStars(pattern) == SelectSeq(pattern, LAMBDA c : c # "*")

RECURSIVE basename(_)
\* os.path.basename: what follows the last '/'
basename(p) ==
  IF p = <<>> THEN <<>>
  ELSE IF p[Len(p)] = "/" THEN <<>>
  ELSE basename(SubSeq(p, 1, Len(p) - 1)) \o <<p[Len(p)]>>

----------------------------------------------------------------------------
(* Directories and file contents *)

EmptyDir == [n \in {} |-> {}]

\* os.listdir
listdir(dir) == DOMAIN dir

\* the directory (or table) after writing `content` under `name`
Put(dir, name, content) ==
  [n \in (DOMAIN dir) \cup {name} |-> IF n = name THEN content ELSE dir[n]]

\* A directory entry: a file with the bytes copied by add(), or with the JSON
\* document written by json.dump (field json holds the one dumped object),
\* or a directory left by clone() (its tree is not looked into).
Bytes(data) == [bytes |-> data, json |-> {}, isdir |-> FALSE]
JsonDoc(obj) == [bytes |-> <<>>, json |-> {obj}, isdir |-> FALSE]
Directory == [bytes |-> <<>>, json |-> {}, isdir |-> TRUE]
\* what a branch file holds is a string; this one stands for an entry of the
\* branches directory that is a directory
DirEntry == "<directory>"

RECURSIVE Newlines(_)
\* universal newlines of a text-mode read: "\r\n" and "\r" become "\n"
Newlines(s) ==
  IF s = <<>> THEN <<>>
  ELSE IF Head(s) = "\r"
       THEN IF Len(s) >= 2 /\ s[2] = "\n"
            THEN <<"\n">> \o Newlines(Tail(Tail(s)))
            ELSE <<"\n">> \o Newlines(Tail(s))
       ELSE <<Head(s)>> \o Newlines(Tail(s))

\* open(path, 'r').read(): decodes (UTF-8) and translates newlines; open
\* raises IsADirectoryError on a directory, read raises UnicodeDecodeError on
\* bytes that do not decode
TextRead(content) ==
  IF content.isdir
  THEN [err |-> "IsADirectoryError", text |-> Bytes(<<>>)]
  ELSE IF \E i \in 1..Len(content.bytes) : content.bytes[i] = "0xFF"
  THEN [err |-> "UnicodeDecodeError", text |-> Bytes(<<>>)]
  ELSE [err |-> "none",
        text |-> [bytes |-> Newlines(content.bytes), json |-> content.json,
                  isdir |-> FALSE]]

----------------------------------------------------------------------------
(* Repository helpers *)

\* hashlib.sha256(json.dumps(names).encode()).hexdigest()[:8], tabulated for
\* the sorted lists of file names of the model
Sha256Hex8(names) ==
  CASE names = <<>> -> "4f53cda1"
    [] names = <<README>> -> "be3ae3b6"
    [] names = <<MetadataJson>> -> "6db2e498"
    [] names = <<Notes>> -> "ed60519b"
    [] names = <<README, MetadataJson>> -> "01b1b8a0"
    [] names = <<README, Notes>> -> "e0b539d1"
    [] names = <<MetadataJson, Notes>> -> "2990d722"
    [] names = <<README, MetadataJson, Notes>> -> "4f32623b"
    [] names = <<X>> -> "cd65ea2c"
    [] names = <<README, X>> -> "a3b57d51"
    [] names = <<MetadataJson, X>> -> "4a5c139c"
    [] names = <<Notes, X>> -> "e888796f"
    [] names = <<README, MetadataJson, X>> -> "e527c48b"
    [] names = <<README, Notes, X>> -> "6faff226"
    [] names = <<MetadataJson, Notes, X>> -> "825f6e7a"
    [] names = <<README, MetadataJson, Notes, X>> -> "0124759e"

\* a mistaken hash that covers the file contents too: a staging set holding
\* 'world' hashes to another value than one of the same names without it
_generate_commit_hash_of_content(stg) ==
  IF \E n \in DOMAIN stg : stg[n].bytes = World
  THEN Sha256Hex8(sorted(listdir(stg) \cup {Notes}))
  ELSE Sha256Hex8(sorted(listdir(stg)))

_generate_commit_hash(stg) == Sha256Hex8(sorted(listdir(stg)))

\* the characters of the name of an entry of the commits directory (a commit
\* hash, or x), for the str comparison of sorted()
HexDigits(h) ==
  CASE h = "4f53cda1" -> <<"4","f","5","3","c","d","a","1">>
    [] h = "be3ae3b6" -> <<"b","e","3","a","e","3","b","6">>
    [] h = "6db2e498" -> <<"6","d","b","2","e","4","9","8">>
    [] h = "ed60519b" -> <<"e","d","6","0","5","1","9","b">>
    [] h = "01b1b8a0" -> <<"0","1","b","1","b","8","a","0">>
    [] h = "e0b539d1" -> <<"e","0","b","5","3","9","d","1">>
    [] h = "2990d722" -> <<"2","9","9","0","d","7","2","2">>
    [] h = "4f32623b" -> <<"4","f","3","2","6","2","3","b">>
    [] h = "cd65ea2c" -> <<"c","d","6","5","e","a","2","c">>
    [] h = "a3b57d51" -> <<"a","3","b","5","7","d","5","1">>
    [] h = "4a5c139c" -> <<"4","a","5","c","1","3","9","c">>
    [] h = "e888796f" -> <<"e","8","8","8","7","9","6","f">>
    [] h = "e527c48b" -> <<"e","5","2","7","c","4","8","b">>
    [] h = "6faff226" -> <<"6","f","a","f","f","2","2","6">>
    [] h = "825f6e7a" -> <<"8","2","5","f","6","e","7","a">>
    [] h = "0124759e" -> <<"0","1","2","4","7","5","9","e">>
    [] h = "x" -> X

RECURSIVE sorted_hashes(_)
\* sorted(os.listdir(self.commits_dir)), the listing given as a set
sorted_hashes(S) ==
  IF S = {} THEN <<>>
  ELSE LET m == CHOOSE x \in S :
                  \A y \in S : x = y \/ StrLess(HexDigits(x), HexDigits(y))
       IN  <<m>> \o sorted_hashes(S \ {m})

\* json.load of a file written by json.dump: the dumped object
json_load(content) == CHOOSE obj \in content.json : TRUE

\* one entry of the list log() returns
log_entry(cms, commit_hash) ==
  LET metadata == json_load(cms[commit_hash][MetadataJson])
  IN  [hash |-> commit_hash,
       message |-> metadata.message,
       timestamp |-> metadata.timestamp,
       files |-> metadata.files]

\* the exception of open(metadata_path, 'r') and json.load(f) on the entry
\* dir of the commits directory, "none" when they return
metadata_error(dir) ==
  IF MetadataJson \notin DOMAIN dir THEN "FileNotFoundError"
  ELSE IF dir[MetadataJson].isdir THEN "IsADirectoryError"
  ELSE IF dir[MetadataJson].json = {} THEN "JSONDecodeError"
  ELSE "none"

\* what Repository.log() raises (err) or returns (entries) in a state with
\* commit directories cms: it raises at the first entry, in sorted order,
\* whose metadata.json cannot be loaded
log_result(cms) ==
  LET hashes == sorted_hashes(listdir(cms))
      failing == {i \in 1..Len(hashes) : metadata_error(cms[hashes[i]]) # "none"}
      first == CHOOSE i \in failing : \A j \in failing : i <= j
  IN  IF failing # {}
      THEN [err |-> metadata_error(cms[hashes[first]]), entries |-> <<>>]
      ELSE [err |-> "none",
            entries |-> [i \in 1..Len(hashes) |-> log_entry(cms, hashes[i])]]

\* a mistaken reading of the ignore file: the lines keep their line ends
ignore_patterns_unstripped(ignore_file) ==
  {ignore_file[i] : i \in DOMAIN ignore_file}

\* [line.strip() for line in f.readlines()]
ignore_patterns(ignore_file) ==
  {strip(ignore_file[i]) : i \in DOMAIN ignore_file}

_should_ignore(filepath, ignore_file) ==
  LET filename == basename(filepath)
  IN  \E pattern \in ignore_patterns(ignore_file) :
         \/ Contains(pattern, filepath)
         \/ pattern = filename
         \/ endswith(filename, StripStars(pattern))

\* a mistaken os.makedirs(commit_path, exist_ok=True): never raises
makedirs_exist_ok(commit_hash, cms) == FALSE

\* os.makedirs(commit_path), without exist_ok: raises FileExistsError when the
\* directory is there
makedirs_fails(commit_hash, cms) == commit_hash \in DOMAIN cms

\* a mistaken copy that keeps a file already at the destination
copy2_keep(dir, name, data) ==
  IF name \in DOMAIN dir THEN dir ELSE Put(dir, name, Bytes(data))

\* shutil.copy2(filepath, dest): dest holds the bytes of the file, a file
\* already there is overwritten
copy2(dir, name, data) == Put(dir, name, Bytes(data))

\* list(commit1_files - commit2_files)
diff_removed(commit1_files, commit2_files) == commit1_files \ commit2_files

\* list(commit2_files - commit1_files)
diff_added(commit1_files, commit2_files) == commit2_files \ commit1_files

\* a mistaken branch update that writes the new hash to every branch file
write_every_branch(brs, commit_hash) == [b \in DOMAIN brs |-> commit_hash]

\* open(os.path.join(self.branches_dir, 'main'), 'w').write(commit_hash)
write_current_branch(brs, commit_hash) == Put(brs, "main", commit_hash)

\* a mistaken metadata record that lists the staging directory, which the
\* moves have emptied
commit_metadata_of_staging(message, now, commit_dir) ==
  [message |-> message, timestamp |-> now, files |-> {}]

\* the dict `metadata` of commit(): message, timestamp and os.listdir of the
\* commit directory
commit_metadata(message, now, commit_dir) ==
  [message |-> message, timestamp |-> now, files |-> listdir(commit_dir)]

\* the working directory once the file at filepath holds data: an entry of
\* its basename, or the directory docs for a path below it
written(working, filepath, data) ==
  IF filepath = VcsIgnore THEN working
  ELSE IF filepath = DocsReadme THEN Put(working, Docs, Directory)
  ELSE Put(working, filepath, Bytes(data))

\* directory dir, of the entries names only
Only(dir, names) == [n \in names |-> dir[n]]

\* a directory x left by a clone into the repository is somewhere below .vcs
deep_tree(stg, cms, brs) ==
  \/ X \in DOMAIN stg
  \/ "x" \in DOMAIN cms
  \/ "x" \in DOMAIN brs
  \/ \E h \in DOMAIN cms : X \in DOMAIN cms[h]

Call(op, args, err, ret) ==
  [op |-> op, args |-> args, err |-> err, ret |-> ret, repeat |-> "no"]

\* two callers of one repository
Callers == {"A", "B"}

\* a caller's locals in commit(): the hash, the staged names it was computed
\* from, the names left to move, the change time of its commit directory, the
\* dict metadata (in a set, empty before the dict is built); in add(), and
\* in a shutil.move that copies: the name and the bytes it copies and where
\* the file it has open is ("staging", the hash of the commit the file was
\* moved to, "unlinked" when it was deleted, "" when none is open); its last
\* call (op) and how it ended (err); wrote: its
\* json.dump is done.
\* interfered: another caller changed the names in the staging directory
\* between this caller's hash computation and its metadata write
IdleProc ==
  [pc |-> "idle", calls |-> 0, op |-> "", message |-> "", hash |-> "", hashed |-> {},
   todo |-> {}, ctime |-> 0, metadata |-> {}, name |-> <<>>, data |-> <<>>,
   fd |-> "", err |-> "none", wrote |-> FALSE, interfered |-> FALSE]

\* positions of commit() between the hash computation and the metadata write
InFlight == {"makedirs", "listdir", "move", "mv_open_src", "mv_open_dst", "mv_copy",
             "mv_copystat", "mv_unlink", "metadata", "open_metadata", "dump"}

\* the callers' records after caller c has changed the staging directory
Interfere(ps, c) ==
  [d \in Callers |-> IF d # c /\ ps[d].pc \in InFlight
                     THEN [ps[d] EXCEPT !.interfered = TRUE]
                     ELSE ps[d]]

\* directory dir without the file name
Remove(dir, name) == [n \in (DOMAIN dir) \ {name} |-> dir[n]]

----------------------------------------------------------------------------
(* The state after Repository(path) on a path without a repository *)

Init ==
  /\ staging = EmptyDir
  /\ commits = EmptyDir
  /\ branches = [b \in {"main"} |-> "0"]
  /\ ignore \in IgnoreFiles
  /\ last = Call("init", <<>>, "none", "None")
  /\ steps = 0
  /\ procs = [c \in Callers |-> IdleProc]
  /\ clock = 0
  /\ outside = [working |-> EmptyDir, copy |-> FALSE]

----------------------------------------------------------------------------
(* Operations *)

\* a mistaken add() that writes the copy into the commit main points to
add_into_commit(filepath, data) ==
  /\ steps < MaxOps
  /\ steps' = steps + 1
  /\ last' = [Call("add", <<filepath, data>>, "none", "None") EXCEPT
                 !.repeat = IF last.op = "add" /\ last.args[1] = filepath
                            THEN IF last.args[2] = data THEN "same" ELSE "changed"
                            ELSE "no"]
  /\ IF _should_ignore(filepath, ignore)
     THEN UNCHANGED <<staging, commits>>
     ELSE /\ staging' = copy2(staging, basename(filepath), data)
          /\ commits' = IF branches["main"] \in DOMAIN commits
                        THEN Put(commits, branches["main"],
                                 copy2(commits[branches["main"]], basename(filepath), data))
                        ELSE commits
  /\ outside' = [outside EXCEPT !.working = written(@, filepath, data)]
  /\ UNCHANGED <<branches, ignore, procs, clock>>

\* Repository.add(filepath), called once the file at filepath holds data
add(filepath, data) ==
  /\ steps < MaxOps
  /\ steps' = steps + 1
  /\ last' = [Call("add", <<filepath, data>>, "none", "None") EXCEPT
                 !.repeat = IF last.op = "add" /\ last.args[1] = filepath
                            THEN IF last.args[2] = data THEN "same" ELSE "changed"
                            ELSE "no"]
  /\ IF _should_ignore(filepath, ignore)
     THEN staging' = staging
     ELSE staging' = copy2(staging, basename(filepath), data)
  /\ outside' = [outside EXCEPT !.working = written(@, filepath, data)]
  /\ UNCHANGED <<commits, branches, ignore, procs, clock>>

\* a mistaken commit() that empties the staging directory before it creates
\* the commit directory
commit_moves_first(message) ==
  LET commit_hash == _generate_commit_hash(staging)
      moved == staging
      commit_dir(now) ==
        Put(moved, MetadataJson,
            JsonDoc([message |-> message, timestamp |-> now, files |-> listdir(moved)]))
  IN  /\ steps < MaxOps
      /\ steps' = steps + 1
      /\ staging' = EmptyDir
      /\ IF makedirs_fails(commit_hash, commits)
         THEN /\ last' = Call("commit", <<message>>, "FileExistsError", "None")
              /\ UNCHANGED <<commits, branches, clock>>
         ELSE /\ clock' \in Tick(clock)
              /\ commits' = Put(commits, commit_hash, commit_dir(clock'))
              /\ branches' = write_current_branch(branches, commit_hash)
              /\ last' = Call("commit", <<message>>, "none", commit_hash)
      /\ UNCHANGED <<ignore, procs, outside>>

\* Repository.commit(message)
commit(message) ==
  LET commit_hash == _generate_commit_hash(staging)
      \* the commit directory once every staged file is moved into it
      moved == staging
      \* now: os.path.getctime(commit_path), the time of the last move (of
      \* makedirs, when nothing is staged)
      commit_dir(now) ==
        Put(moved, MetadataJson, JsonDoc(commit_metadata(message, now, moved)))
  IN  /\ steps < MaxOps
      /\ steps' = steps + 1
      /\ IF makedirs_fails(commit_hash, commits)
         THEN \* os.makedirs(commit_path) raises: nothing has been changed yet
              /\ last' = Call("commit", <<message>>, "FileExistsError", "None")
              /\ UNCHANGED <<staging, commits, branches, clock>>
         ELSE /\ clock' \in Tick(clock)
              /\ commits' = Put(commits, commit_hash, commit_dir(clock'))
              /\ staging' = EmptyDir
              /\ branches' = write_current_branch(branches, commit_hash)
              /\ last' = Call("commit", <<message>>, "none", commit_hash)
      /\ UNCHANGED <<ignore, procs, outside>>

\* a mistaken branch(name) that writes the name where the hash belongs
branch_writes_name(name) ==
  /\ steps < MaxOps
  /\ steps' = steps + 1
  /\ branches' = Put(branches, name, name)
  /\ last' = [Call("branch", <<name>>, "none", "None") EXCEPT
                 !.repeat = IF name \notin DOMAIN branches THEN "no"
                            ELSE IF branches[name] = name THEN "same" ELSE "changed"]
  /\ UNCHANGED <<staging, commits, ignore, procs, clock, outside>>

\* a mistaken branch(name) that leaves an existing branch file alone
branch_keeps_existing(name) ==
  LET latest_commit == branches["main"]
  IN  /\ steps < MaxOps
      /\ steps' = steps + 1
      /\ branches' = IF name \in DOMAIN branches THEN branches
                      ELSE Put(branches, name, latest_commit)
      /\ last' = [Call("branch", <<name>>, "none", "None") EXCEPT
                     !.repeat = IF name \notin DOMAIN branches THEN "no"
                                ELSE IF branches[name] = latest_commit
                                     THEN "same" ELSE "changed"]
      /\ UNCHANGED <<staging, commits, ignore, procs, clock, outside>>

\* Repository.branch(name); last.repeat tells whether the branch file was
\* there before, with the same or with another pointer
branch(name) ==
  LET latest_commit == branches["main"]
  IN  /\ steps < MaxOps
      /\ steps' = steps + 1
      /\ IF name \in DOMAIN branches /\ branches[name] = DirEntry
         THEN \* open(branch_path, 'w') on a directory
              /\ branches' = branches
              /\ last' = Call("branch", <<name>>, "IsADirectoryError", "None")
         ELSE /\ branches' = Put(branches, name, latest_commit)
              /\ last' = [Call("branch", <<name>>, "none", "None") EXCEPT
                             !.repeat = IF name \notin DOMAIN branches THEN "no"
                                        ELSE IF branches[name] = latest_commit
                                             THEN "same" ELSE "changed"]
      /\ UNCHANGED <<staging, commits, ignore, procs, clock, outside>>

\* the exception of open(branch_path, 'r') on the branch file of name
branch_error(name, brs) ==
  IF name \notin DOMAIN brs THEN "FileNotFoundError"
  ELSE IF brs[name] = DirEntry THEN "IsADirectoryError"
  ELSE "none"

\* what Repository.diff(branch1, branch2) returns in a state with branch files
\* brs and commit directories cms, and the exceptions it can raise there
\* (errs; it returns when there is none). The files of both commits are read
\* in the order of a set of str, which is not fixed: the file that fails first
\* decides the exception.
diff_result(branch1, branch2, brs, cms) ==
  IF branch_error(branch1, brs) # "none"
  THEN [errs |-> {branch_error(branch1, brs)}, added |-> {}, removed |-> {}, modified |-> {}]
  ELSE IF branch_error(branch2, brs) # "none"
  THEN [errs |-> {branch_error(branch2, brs)}, added |-> {}, removed |-> {}, modified |-> {}]
  ELSE
    LET commit1 == brs[branch1]
        commit2 == brs[branch2]
        commit1_files == IF commit1 \in DOMAIN cms THEN listdir(cms[commit1]) ELSE {}
        commit2_files == IF commit2 \in DOMAIN cms THEN listdir(cms[commit2]) ELSE {}
        common == commit1_files \cap commit2_files
        read1(f) == TextRead(cms[commit1][f])
        read2(f) == TextRead(cms[commit2][f])
        \* open(file1_path), open(file2_path), f1.read(), f2.read()
        read_error(f) ==
          IF cms[commit1][f].isdir \/ cms[commit2][f].isdir THEN "IsADirectoryError"
          ELSE IF read1(f).err # "none" THEN read1(f).err
          ELSE read2(f).err
        errors == {read_error(f) : f \in common} \ {"none"}
    IN  IF errors # {}
        THEN [errs |-> errors, added |-> {}, removed |-> {}, modified |-> {}]
        ELSE [errs |-> {},
              added |-> diff_added(commit1_files, commit2_files),
              removed |-> diff_removed(commit1_files, commit2_files),
              modified |-> {f \in common : read1(f).text # read2(f).text}]

\* Repository.diff(branch1, branch2)
diff(branch1, branch2) ==
  LET r == diff_result(branch1, branch2, branches, commits)
  IN  /\ steps < MaxOps
      /\ steps' = steps + 1
      /\ \E e \in (IF r.errs = {} THEN {"none"} ELSE r.errs) :
            last' = Call("diff", <<branch1, branch2>>, e, r)
      /\ UNCHANGED <<staging, commits, branches, ignore, procs, clock, outside>>

\* Repository.log()
log ==
  /\ steps < MaxOps
  /\ steps' = steps + 1
  /\ last' = Call("log", <<>>, log_result(commits).err, log_result(commits).entries)
  /\ UNCHANGED <<staging, commits, branches, ignore, procs, clock, outside>>

\* Repository.clone(destination): shutil.copytree(self.path, destination).
\* copytree lists the repository root, creates the destination (it raises
\* FileExistsError when it is there) and copies the entries in the order of
\* os.scandir, which is not fixed. With a destination in the repository the
\* copy of .vcs descends into itself until the recursion limit is reached:
\* the call raises RecursionError and the destination stays, with the entries
\* of the working directory copied before .vcs (first) and a part of .vcs.
\* A clone to ../copy made after that fails likewise, on the tree left.
clone(destination) ==
  LET exists == \/ destination = "../copy" /\ outside.copy
                \/ destination = ".vcs/staging/x" /\ X \in DOMAIN staging
                \/ destination = ".vcs/commits/x" /\ "x" \in DOMAIN commits
                \/ destination = ".vcs/branches/x" /\ "x" \in DOMAIN branches
  IN  /\ steps < MaxOps
      /\ steps' = steps + 1
      /\ IF exists
         THEN \* os.makedirs(dst) of copytree raises
              /\ last' = Call("clone", <<destination>>, "FileExistsError", "None")
              /\ UNCHANGED <<staging, commits, branches, outside>>
         ELSE IF destination = "../copy"
         THEN /\ last' = Call("clone", <<destination>>,
                              IF deep_tree(staging, commits, branches)
                              THEN "RecursionError" ELSE "none", "None")
              /\ outside' = [outside EXCEPT !.copy = TRUE]
              /\ UNCHANGED <<staging, commits, branches>>
         ELSE /\ last' = Call("clone", <<destination>>, "RecursionError", "None")
              /\ staging' = IF destination = ".vcs/staging/x"
                            THEN Put(staging, X, Directory) ELSE staging
              /\ IF destination = ".vcs/commits/x"
                 THEN \E first \in SUBSET DOMAIN outside.working :
                         commits' = Put(commits, "x",
                                        Put(Only(outside.working, first),
                                            DotVcs, Directory))
                 ELSE commits' = commits
              /\ branches' = IF destination = ".vcs/branches/x"
                             THEN Put(branches, "x", DirEntry) ELSE branches
              /\ outside' = outside
      /\ UNCHANGED <<ignore, procs, clock>>

\* Repository(path) / init_repo(path) on the path of this repository
reopen ==
  /\ steps < MaxOps
  /\ steps' = steps + 1
  /\ branches' = Put(branches, "main", "0")
  /\ last' = Call("init", <<>>, "none", "None")
  /\ UNCHANGED <<staging, commits, ignore, procs, clock, outside>>

Next ==
  \/ \E p \in Paths : \E d \in DataAt(p, ignore) : add(p, d)
  \/ \E m \in Messages(commits) : commit(m)
  \/ \E n \in BranchNames : branch(n)
  \/ \E b1 \in BranchNames, b2 \in BranchNames : diff(b1, b2)
  \/ log
  \/ reopen
  \/ \E d \in Destinations : clone(d)

Spec == Init /\ [][Next]_vars

----------------------------------------------------------------------------
(* Two callers of one repository. There is no lock: a call of commit() or    *)
(* add() is the sequence of its file system operations, and the operations   *)
(* of the two callers interleave.                                            *)

\* the paths each of the concurrent callers adds, what the file at each
\* holds, and the message each caller commits with
ConcPaths(c) == IF c = "A" THEN {README, Notes} ELSE {README}
ConcData(p) == IF p = README THEN Hello ELSE OnlyLF
ConcMessage(c) == IF c = "A" THEN "init" ELSE "update"

\* the callers' records once the staged file filename is moved to the commit
\* directory commit_hash ("unlinked": once it is deleted): a file a caller
\* has open stays open where it is now
Reopened(ps, filename, commit_hash) ==
  [d \in Callers |-> IF ps[d].fd = "staging" /\ ps[d].name = filename
                     THEN [ps[d] EXCEPT !.fd = commit_hash]
                     ELSE ps[d]]

\* the bytes of the file a caller has open, "unlinked" apart
opened(ps, c, stg, cms) ==
  IF ps[c].fd = "staging" THEN stg[ps[c].name] ELSE cms[ps[c].fd][ps[c].name]

\* caller c: add(filepath), lines 34-41 up to open(dst, 'wb') in shutil.copy2:
\* the staged file is created, or emptied when it is there
c_add(c, filepath, data) ==
  /\ procs[c].pc = "idle"
  /\ procs[c].calls < MaxCalls
  /\ IF _should_ignore(filepath, ignore)
     THEN /\ staging' = staging
          /\ procs' = [procs EXCEPT ![c].calls = @ + 1, ![c].op = "add", ![c].err = "none"]
     ELSE /\ staging' = Put(staging, basename(filepath), Bytes(<<>>))
          /\ procs' = [Interfere(procs, c) EXCEPT
                         ![c].calls = @ + 1, ![c].op = "add", ![c].err = "none",
                         ![c].pc = "copy", ![c].fd = "staging",
                         ![c].name = basename(filepath), ![c].data = data]
  /\ outside' = [outside EXCEPT !.working = written(@, filepath, data)]
  /\ UNCHANGED <<commits, branches, ignore, last, steps, clock>>

\* caller c: line 41, shutil.copy2 writes the bytes to the file it has open,
\* which a commit of the other caller may have moved to its commit directory
\* or deleted
c_copy(c) ==
  /\ procs[c].pc = "copy"
  /\ IF procs[c].fd = "staging"
     THEN /\ staging' = copy2(staging, procs[c].name, procs[c].data)
          /\ commits' = commits
     ELSE IF procs[c].fd = "unlinked"
     THEN UNCHANGED <<staging, commits>>
     ELSE /\ commits' = Put(commits, procs[c].fd,
                            copy2(commits[procs[c].fd], procs[c].name, procs[c].data))
          /\ staging' = staging
  /\ procs' = [procs EXCEPT ![c].pc = "copystat", ![c].fd = ""]
  /\ UNCHANGED <<branches, ignore, last, steps, clock, outside>>

\* caller c: line 41, shutil.copy2 ends with copystat(src, dst), which raises
\* FileNotFoundError when no file is staged under the name any more
c_copystat(c) ==
  /\ procs[c].pc = "copystat"
  /\ procs' = [procs EXCEPT
                 ![c].pc = "idle",
                 ![c].err = IF procs[c].name \in DOMAIN staging
                            THEN "none" ELSE "FileNotFoundError"]
  /\ UNCHANGED <<staging, commits, branches, ignore, last, steps, clock, outside>>

\* caller c: commit(message), line 46: commit_hash = self._generate_commit_hash()
c_hash(c, message) ==
  /\ procs[c].pc = "idle"
  /\ procs[c].calls < MaxCalls
  /\ procs' = [procs EXCEPT ![c] =
                 [IdleProc EXCEPT !.pc = "makedirs", !.op = "commit",
                                  !.calls = procs[c].calls + 1,
                                  !.message = message,
                                  !.hash = _generate_commit_hash(staging),
                                  !.hashed = listdir(staging)]]
  /\ UNCHANGED <<staging, commits, branches, ignore, last, steps, clock, outside>>

\* caller c: line 48: os.makedirs(commit_path); the new directory gets the
\* time of the clock
c_makedirs(c) ==
  /\ procs[c].pc = "makedirs"
  /\ IF makedirs_fails(procs[c].hash, commits)
     THEN /\ procs' = [procs EXCEPT ![c].pc = "idle", ![c].err = "FileExistsError"]
          /\ UNCHANGED <<commits, clock>>
     ELSE /\ clock' \in Tick(clock)
          /\ procs' = [procs EXCEPT ![c].pc = "listdir", ![c].ctime = clock']
          /\ commits' = Put(commits, procs[c].hash, EmptyDir)
  /\ UNCHANGED <<staging, branches, ignore, last, steps, outside>>

\* caller c: line 51: os.listdir(self.staging_area), the files to move
c_listdir(c) ==
  /\ procs[c].pc = "listdir"
  /\ procs' = [procs EXCEPT ![c].todo = listdir(staging),
                             ![c].pc = IF listdir(staging) = {} THEN "metadata" ELSE "move"]
  /\ UNCHANGED <<staging, commits, branches, ignore, last, steps, clock, outside>>

\* caller c: lines 52-54: shutil.move of one listed file (in any order), its
\* os.rename(src, dst). The rename changes the commit directory, and so its
\* change time. When the file is no longer staged os.rename raises and
\* shutil.move goes on to copy and delete the file
c_move(c) ==
  /\ procs[c].pc = "move"
  /\ \E filename \in procs[c].todo :
       IF filename \notin DOMAIN staging
       THEN /\ procs' = [procs EXCEPT ![c].pc = "mv_open_src", ![c].name = filename]
            /\ UNCHANGED <<staging, commits, clock>>
       ELSE /\ clock' \in Tick(clock)
            /\ commits' = Put(commits, procs[c].hash,
                              Put(commits[procs[c].hash], filename, staging[filename]))
            /\ staging' = Remove(staging, filename)
            /\ procs' = [Reopened(Interfere(procs, c), filename, procs[c].hash) EXCEPT
                           ![c].todo = @ \ {filename},
                           ![c].ctime = clock',
                           ![c].pc = IF procs[c].todo = {filename}
                                     THEN "metadata" ELSE "move"]
  /\ UNCHANGED <<branches, ignore, last, steps, outside>>

\* caller c: shutil.move after a failed rename, copy2(src, dst): open(src),
\* which raises FileNotFoundError unless the other caller has staged the file
\* again
c_mv_open_src(c) ==
  /\ procs[c].pc = "mv_open_src"
  /\ procs' = IF procs[c].name \in DOMAIN staging
              THEN [procs EXCEPT ![c].pc = "mv_open_dst", ![c].fd = "staging"]
              ELSE [procs EXCEPT ![c].pc = "idle", ![c].err = "FileNotFoundError"]
  /\ UNCHANGED <<staging, commits, branches, ignore, last, steps, clock, outside>>

\* caller c: copy2(src, dst) of shutil.move: open(dst, 'wb') creates the file
\* in the commit directory, empty
c_mv_open_dst(c) ==
  /\ procs[c].pc = "mv_open_dst"
  /\ clock' \in Tick(clock)
  /\ commits' = Put(commits, procs[c].hash,
                    Put(commits[procs[c].hash], procs[c].name, Bytes(<<>>)))
  /\ procs' = [procs EXCEPT ![c].pc = "mv_copy", ![c].ctime = clock']
  /\ UNCHANGED <<staging, branches, ignore, last, steps, outside>>

\* caller c: copy2(src, dst) of shutil.move: the bytes the open source file
\* holds now are written to the file in the commit directory
c_mv_copy(c) ==
  /\ procs[c].pc = "mv_copy"
  /\ commits' = Put(commits, procs[c].hash,
                    Put(commits[procs[c].hash], procs[c].name,
                        Bytes(opened(procs, c, staging, commits).bytes)))
  /\ procs' = [procs EXCEPT ![c].pc = "mv_copystat", ![c].fd = ""]
  /\ UNCHANGED <<staging, branches, ignore, last, steps, clock, outside>>

\* caller c: copy2(src, dst) of shutil.move ends with copystat(src, dst), which
\* raises FileNotFoundError when the file is no longer staged
c_mv_copystat(c) ==
  /\ procs[c].pc = "mv_copystat"
  /\ procs' = IF procs[c].name \in DOMAIN staging
              THEN [procs EXCEPT ![c].pc = "mv_unlink"]
              ELSE [procs EXCEPT ![c].pc = "idle", ![c].err = "FileNotFoundError"]
  /\ UNCHANGED <<staging, commits, branches, ignore, last, steps, clock, outside>>

\* caller c: shutil.move ends with os.unlink(src), which raises
\* FileNotFoundError when the file is no longer staged
c_mv_unlink(c) ==
  /\ procs[c].pc = "mv_unlink"
  /\ IF procs[c].name \notin DOMAIN staging
     THEN /\ procs' = [procs EXCEPT ![c].pc = "idle", ![c].err = "FileNotFoundError"]
          /\ staging' = staging
     ELSE /\ staging' = Remove(staging, procs[c].name)
          /\ procs' = [Reopened(Interfere(procs, c), procs[c].name, "unlinked") EXCEPT
                         ![c].todo = @ \ {procs[c].name},
                         ![c].pc = IF procs[c].todo = {procs[c].name}
                                   THEN "metadata" ELSE "move"]
  /\ UNCHANGED <<commits, branches, ignore, last, steps, clock, outside>>

\* caller c: lines 57-61: the dict metadata, with os.path.getctime and
\* os.listdir of the commit directory
c_metadata(c) ==
  /\ procs[c].pc = "metadata"
  /\ procs' = [procs EXCEPT
                 ![c].metadata = {commit_metadata(procs[c].message, procs[c].ctime,
                                                  commits[procs[c].hash])},
                 ![c].pc = "open_metadata"]
  /\ UNCHANGED <<staging, commits, branches, ignore, last, steps, clock, outside>>

\* caller c: line 62: open(metadata.json, 'w') creates the file, empty
c_open_metadata(c) ==
  /\ procs[c].pc = "open_metadata"
  /\ commits' = Put(commits, procs[c].hash,
                    Put(commits[procs[c].hash], MetadataJson, Bytes(<<>>)))
  /\ procs' = [procs EXCEPT ![c].pc = "dump"]
  /\ UNCHANGED <<staging, branches, ignore, last, steps, clock, outside>>

\* caller c: line 63: json.dump(metadata, f)
c_dump(c) ==
  /\ procs[c].pc = "dump"
  /\ LET metadata == CHOOSE m \in procs[c].metadata : TRUE
     IN  commits' = Put(commits, procs[c].hash,
                        Put(commits[procs[c].hash], MetadataJson, JsonDoc(metadata)))
  /\ procs' = [procs EXCEPT ![c].wrote = TRUE, ![c].pc = "open_branch"]
  /\ UNCHANGED <<staging, branches, ignore, last, steps, clock, outside>>

\* caller c: lines 66-67: open(current_branch_path, 'w') empties branches/main
c_open_branch(c) ==
  /\ procs[c].pc = "open_branch"
  /\ branches' = Put(branches, "main", "")
  /\ procs' = [procs EXCEPT ![c].pc = "write_branch"]
  /\ UNCHANGED <<staging, commits, ignore, last, steps, clock, outside>>

\* caller c: lines 68-70: f.write(commit_hash), return commit_hash
c_write_branch(c) ==
  /\ procs[c].pc = "write_branch"
  /\ branches' = write_current_branch(branches, procs[c].hash)
  /\ procs' = [procs EXCEPT ![c].pc = "idle"]
  /\ UNCHANGED <<staging, commits, ignore, last, steps, clock, outside>>

NextConc ==
  \/ \E c \in Callers : \E p \in ConcPaths(c) : c_add(c, p, ConcData(p))
  \/ \E c \in Callers : c_copy(c)
  \/ \E c \in Callers : c_copystat(c)
  \/ \E c \in Callers : c_hash(c, ConcMessage(c))
  \/ \E c \in Callers : c_makedirs(c)
  \/ \E c \in Callers : c_listdir(c)
  \/ \E c \in Callers : c_move(c)
  \/ \E c \in Callers : c_mv_open_src(c)
  \/ \E c \in Callers : c_mv_open_dst(c)
  \/ \E c \in Callers : c_mv_copy(c)
  \/ \E c \in Callers : c_mv_copystat(c)
  \/ \E c \in Callers : c_mv_unlink(c)
  \/ \E c \in Callers : c_metadata(c)
  \/ \E c \in Callers : c_open_metadata(c)
  \/ \E c \in Callers : c_dump(c)
  \/ \E c \in Callers : c_open_branch(c)
  \/ \E c \in Callers : c_write_branch(c)

SpecConc == Init /\ [][NextConc]_vars

----------------------------------------------------------------------------
(* Properties *)

\* the metadata record of commit h, as json.load reads it back
MetadataOf(cms, h) == json_load(cms[h][MetadataJson])

\* the file set recorded for the commit a branch points to; empty when unbound
RecordedFiles(b) ==
  IF branches[b] \in DOMAIN commits THEN MetadataOf(commits, branches[b]).files ELSE {}

\* this step is a call of the named operation
Called(op) == steps' = steps + 1 /\ last'.op = op

ReadmeHash == Sha256Hex8(<<README>>)

\* the repository after add(README.md 'hello'); commit('init'); branch('dev');
\* add(README.md 'world'), started from a fresh repository
BeforeUpdate ==
  /\ DOMAIN commits = {ReadmeHash}
  /\ commits[ReadmeHash][README] = Bytes(Hello)
  /\ MetadataOf(commits, ReadmeHash).message = "init"
  /\ DOMAIN branches = {"main", "dev"}
  /\ branches["main"] = ReadmeHash
  /\ branches["dev"] = ReadmeHash
  /\ DOMAIN staging = {README}
  /\ staging[README] = Bytes(World)

\* C1: in the state reached by add(README.md 'hello'); commit('init');
\* branch('dev'); add(README.md 'world'), commit('update') succeeds, and
\* afterwards diff('dev','main') returns modified = [README.md], added = []
\* and removed = [].
C1_UpdateCommitsAndDiffs ==
  [][ (BeforeUpdate /\ Called("commit") /\ last'.args = <<"update">>)
      => /\ last'.err = "none"
         /\ LET r == diff_result("dev", "main", branches', commits')
            IN  /\ r.errs = {}
                /\ r.modified = {README}
                /\ r.added = {}
                /\ r.removed = {} ]_vars

\* C2: every call of commit succeeds, returns an identifier and adds a commit
\* of that identifier whose recorded file set is the set of staged file names.
C2_CommitAlwaysSucceeds ==
  [][ Called("commit")
      => /\ last'.err = "none"
         /\ last'.ret \notin DOMAIN commits
         /\ last'.ret \in DOMAIN commits'
         /\ MetadataOf(commits', last'.ret).files = DOMAIN staging ]_vars

\* C3: after every call of commit the staging set is empty.
C3_CommitDrainsStaging ==
  [][ Called("commit") => staging' = EmptyDir ]_vars

\* C4: every branch file holds the unbound sentinel '0' or the identifier of
\* a commit of the commit log (a directory that clone() left among the branch
\* files is not a branch).
C4_BranchBound ==
  \A b \in DOMAIN branches :
     branches[b] # DirEntry => branches[b] = "0" \/ branches[b] \in DOMAIN commits

\* a branch still bound to a commit after the repository was opened again,
\* which has reset main to the sentinel
C4_Witness ==
  /\ last.op = "init" /\ steps > 0
  /\ branches["main"] = "0"
  /\ "dev" \in DOMAIN branches
  /\ branches["dev"] \in DOMAIN commits

\* C5: a commit of the commit log stays in it, with the same files, the same
\* content of each file and the same metadata, whatever is called next.
C5_CommitImmutable ==
  [][ \A h \in DOMAIN commits : h \in DOMAIN commits' /\ commits'[h] = commits[h] ]_vars

\* a commit call that computed the identifier of an existing commit, made
\* with other content staged than that commit holds
C5_Witness ==
  /\ last.op = "commit"
  /\ last.err = "FileExistsError"
  /\ staging # EmptyDir
  /\ LET h == _generate_commit_hash(staging)
     IN  /\ h \in DOMAIN commits
         /\ \E n \in DOMAIN staging : commits[h][n] # staging[n]

\* C6: diff(A,B) returns as added the recorded files of B's commit that are not
\* recorded for A's, as removed those of A's that are not recorded for B's, and
\* as modified the files recorded for both whose committed bytes differ.
C6_DiffOfRecordedFiles ==
  \A a \in DOMAIN branches, b \in DOMAIN branches :
     LET r == diff_result(a, b, branches, commits)
     IN  /\ r.errs = {}
         /\ r.added = RecordedFiles(b) \ RecordedFiles(a)
         /\ r.removed = RecordedFiles(a) \ RecordedFiles(b)
         /\ r.modified = {f \in RecordedFiles(a) \cap RecordedFiles(b) :
                             commits[branches[a]][f] # commits[branches[b]][f]}

\* C7: for any two branches A and B, diff(A,B) and diff(B,A) return, and
\* diff(A,B).added = diff(B,A).removed and diff(A,B).removed = diff(B,A).added.
C7_DiffSymmetry ==
  \A a \in DOMAIN branches, b \in DOMAIN branches :
     LET r1 == diff_result(a, b, branches, commits)
         r2 == diff_result(b, a, branches, commits)
     IN  /\ r1.errs = {} /\ r2.errs = {}
         /\ r1.added = r2.removed
         /\ r1.removed = r2.added

\* C8: diff(A,A) returns empty added, removed and modified, for every branch A.
C8_DiffReflexive ==
  \A a \in DOMAIN branches :
     LET r == diff_result(a, a, branches, commits)
     IN  r.errs = {} /\ r.added = {} /\ r.removed = {} /\ r.modified = {}

\* C9: adding the same (not ignored) path twice in a row leaves one entry for
\* its basename, holding the bytes of the second add, and no error; the rest
\* of the staging set is as the first add left it.
C9_StageTwice ==
  [][ ( /\ last.op = "add" /\ Called("add")
        /\ last'.args[1] = last.args[1]
        /\ ~ _should_ignore(last.args[1], ignore) )
      => LET name == basename(last'.args[1])
         IN  /\ last'.err = "none"
             /\ DOMAIN staging' = DOMAIN staging
             /\ name \in DOMAIN staging'
             /\ staging'[name].bytes = last'.args[2]
             /\ \A n \in DOMAIN staging \ {name} : staging'[n] = staging[n] ]_vars

\* a path added twice in a row, its file changed in between
C9_Witness ==
  /\ last.op = "add" /\ last.repeat = "changed"
  /\ ~ _should_ignore(last.args[1], ignore)
  /\ staging[basename(last.args[1])].bytes = last.args[2]

\* a path added twice in a row, its file left alone in between
C9_WitnessSame ==
  /\ last.op = "add" /\ last.repeat = "same"
  /\ ~ _should_ignore(last.args[1], ignore)

\* C10: add of a path whose basename equals a line of the ignore file (its
\* line end stripped) returns without error and leaves the staging set, the
\* commit log and the branch table as they were.
C10_IgnoreExclusion ==
  [][ ( /\ Called("add")
        /\ \E i \in DOMAIN ignore : strip(ignore[i]) = basename(last'.args[1]) )
      => /\ last'.err = "none"
         /\ staging' = staging
         /\ commits' = commits
         /\ branches' = branches ]_vars

\* add of 'notes' under an ignore file with the line 'notes', with another
\* file staged
C10_Witness ==
  /\ last.op = "add" /\ last.args[1] = Notes
  /\ \E i \in DOMAIN ignore : strip(ignore[i]) = Notes
  /\ Notes \notin DOMAIN staging
  /\ staging # EmptyDir

\* the entries of a log() result, as a set
LogEntries(l) == {l[i] : i \in 1..Len(l)}

\* C11: in every state log() succeeds and returns the commits in ascending
\* order of identifier, one entry per commit made by a successful commit call:
\* a successful commit adds one entry with its identifier, its message and
\* the staged file names and keeps the others, every other call (a failed
\* commit too) leaves the list as it is.
C11_LogListsCommits ==
  /\ [](log_result(commits).err = "none")
  /\ [](LET l == log_result(commits).entries
        IN  \A i \in 1..Len(l), j \in 1..Len(l) :
               i < j => StrLess(HexDigits(l[i].hash), HexDigits(l[j].hash)))
  /\ [][ LET before == log_result(commits).entries
             after == log_result(commits').entries
         IN  IF Called("commit") /\ last'.err = "none"
             THEN /\ Len(after) = Len(before) + 1
                  /\ LogEntries(before) \subseteq LogEntries(after)
                  /\ \E e \in LogEntries(after) \ LogEntries(before) :
                        /\ e.hash = last'.ret
                        /\ e.message = last'.args[1]
                        /\ e.files = DOMAIN staging
             ELSE after = before ]_vars
  /\ [][ Called("log")
         => last'.err = "none" /\ last'.ret = log_result(commits).entries ]_vars

\* C12: once main is bound, no call returns it to the sentinel '0', deletes
\* it, or moves it to anything but a commit made by that call; and no other
\* bound branch is deleted or returns to the sentinel.
C12_BoundStaysBound ==
  [][ /\ branches["main"] # "0"
         => /\ "main" \in DOMAIN branches'
            /\ branches'["main"] # "0"
            /\ \/ branches'["main"] = branches["main"]
               \/ branches'["main"] \in (DOMAIN commits') \ (DOMAIN commits)
      /\ \A b \in DOMAIN branches :
            branches[b] # "0" => b \in DOMAIN branches' /\ branches'[b] # "0" ]_vars

\* C13: after a successful commit main points to the identifier the commit
\* returned, and every other branch has the pointer it had before.
C13_CommitMovesMainOnly ==
  [][ (Called("commit") /\ last'.err = "none")
      => /\ branches'["main"] = last'.ret
         /\ DOMAIN branches' = DOMAIN branches
         /\ \A b \in DOMAIN branches \ {"main"} : branches'[b] = branches[b] ]_vars

\* a successful commit with branch dev bound to an earlier commit
C13_Witness ==
  /\ last.op = "commit" /\ last.err = "none"
  /\ branches["main"] = last.ret
  /\ "dev" \in DOMAIN branches
  /\ branches["dev"] \in DOMAIN commits
  /\ branches["dev"] # branches["main"]

\* C14: branch(name) returns without error, sets the pointer of name to the
\* pointer of main (an existing pointer is replaced), and leaves the staging
\* set, the commit log and every other branch as they were; branch('main')
\* leaves main as it was.
C14_BranchCopiesMain ==
  [][ Called("branch")
      => LET name == last'.args[1]
         IN  /\ last'.err = "none"
             /\ DOMAIN branches' = (DOMAIN branches) \cup {name}
             /\ branches'[name] = branches["main"]
             /\ \A b \in DOMAIN branches \ {name} : branches'[b] = branches[b]
             /\ branches'["main"] = branches["main"]
             /\ staging' = staging
             /\ commits' = commits ]_vars

\* branch('dev') has replaced the pointer of an existing branch dev by the
\* pointer of main, a commit, with a file staged
C14_Witness ==
  /\ last.op = "branch" /\ last.args = <<"dev">> /\ last.repeat = "changed"
  /\ branches["dev"] = branches["main"]
  /\ branches["main"] \in DOMAIN commits
  /\ staging # EmptyDir

\* branch('dev') on an unbound main: dev gets the sentinel
C14_WitnessUnbound ==
  /\ last.op = "branch" /\ last.args = <<"dev">>
  /\ branches["dev"] = "0"

\* the commits of the log made from a staging set of the names now staged
SameNames ==
  {h \in DOMAIN commits : /\ metadata_error(commits[h]) = "none"
                          /\ MetadataOf(commits, h).files = DOMAIN staging}

\* C15: the identifier commit computes depends on the staged file names only:
\* the identifier computed for the staging set of any state is the identifier
\* of the commit made (earlier, from other contents, with another message,
\* on another history) from a staging set of the same names.
C15_HashOfNamesOnly ==
  \A h \in SameNames : _generate_commit_hash(staging) = h

\* a second commit log entry's names staged again with other content, under
\* another message, after more commits were made
C15_Witness ==
  /\ last.op = "commit" /\ last.err # "none"
  /\ Cardinality(DOMAIN commits) >= 2
  /\ \E h \in SameNames :
        /\ h # branches["main"]
        /\ MetadataOf(commits, h).message # last.args[1]
        /\ \E n \in DOMAIN staging : commits[h][n] # staging[n]

\* C16: a commit that computes the identifier of an existing commit
\* completes without error and replaces that commit's files and metadata by
\* its own.
C16_CollisionOverwrites ==
  [][ (Called("commit") /\ _generate_commit_hash(staging) \in DOMAIN commits)
      => LET h == _generate_commit_hash(staging)
         IN  /\ last'.err = "none"
             /\ \A n \in DOMAIN staging \ {MetadataJson} : commits'[h][n] = staging[n]
             /\ MetadataOf(commits', h).message = last'.args[1] ]_vars

\* C17: after a successful commit the commit directory holds, for every file
\* name that was staged (metadata.json too), a file with the staged content.
C17_SnapshotHoldsStaged ==
  [][ (Called("commit") /\ last'.err = "none")
      => \A n \in DOMAIN staging :
            /\ n \in DOMAIN commits'[last'.ret]
            /\ commits'[last'.ret][n] = staging[n] ]_vars

\* C18: add(path), staged or ignored, leaves the commit log and every branch
\* pointer as they were.
C18_AddKeepsLogAndBranches ==
  [][ Called("add") => commits' = commits /\ branches' = branches ]_vars

\* a file staged by add() in a repository with a commit and a second branch
C18_Witness ==
  /\ last.op = "add"
  /\ ~ _should_ignore(last.args[1], ignore)
  /\ basename(last.args[1]) \in DOMAIN staging
  /\ branches["main"] \in DOMAIN commits
  /\ "dev" \in DOMAIN branches

\* an ignored path given to add() in a repository with a commit
C18_WitnessIgnored ==
  /\ last.op = "add"
  /\ _should_ignore(last.args[1], ignore)
  /\ commits # EmptyDir

\* C20: a commit call whose identifier names an existing commit raises, and
\* the staging set, the commit log and every branch pointer are as before
\* the call.
C20_FailedCommitChangesNothing ==
  [][ (Called("commit") /\ _generate_commit_hash(staging) \in DOMAIN commits)
      => /\ last'.err # "none"
         /\ staging' = staging
         /\ commits' = commits
         /\ branches' = branches ]_vars

\* a failed commit with files staged, main not pointing to the commit of the
\* colliding identifier
C20_Witness ==
  /\ last.op = "commit" /\ last.err = "FileExistsError"
  /\ staging # EmptyDir
  /\ _generate_commit_hash(staging) \in DOMAIN commits
  /\ branches["main"] # _generate_commit_hash(staging)
  /\ branches["main"] # "0"

\* caller c has written the metadata of a commit whose recorded file set is
\* not the set of names its identifier was computed from
Mismatch(c) ==
  /\ procs[c].wrote
  /\ MetadataOf(commits, procs[c].hash).files # procs[c].hashed

\* C19: with two callers and no lock, a commit can record a file set that
\* differs from the names its identifier was computed from, and it does so
\* only when another caller's add or commit changed the staging directory
\* between the hash computation and the metadata write.
C19_MismatchOnlyByInterleaving ==
  \A c \in Callers : Mismatch(c) => procs[c].interfered

\* a finished commit that holds, and records, a file the other caller added
\* after the identifier was computed
C19_Witness ==
  \E c \in Callers :
     /\ Mismatch(c)
     /\ procs[c].pc = "idle" /\ procs[c].err = "none"
     /\ branches["main"] = procs[c].hash
     /\ \E n \in MetadataOf(commits, procs[c].hash).files \ procs[c].hashed :
           n \in DOMAIN commits[procs[c].hash]

\* a commit of one caller that has lost a listed file to the commit of the
\* other caller and was given up with FileNotFoundError
C19_WitnessLostFile ==
  \E c \in Callers :
     /\ procs[c].pc = "idle" /\ procs[c].op = "commit"
     /\ procs[c].err = "FileNotFoundError"

====
